---- MODULE Spec2Model ----
(***************************************************************************)
(* A model of image2pdf (src/main.py): the PDFWorker thread that lays out  *)
(* each image on a page of a reportlab canvas, and the ImageToPDF window   *)
(* that starts it.                                                         *)
(*                                                                         *)
(* Python floats are IEEE-754 doubles.  They are modelled exactly: a       *)
(* double is a sign, a 53-bit mantissa and a binary exponent, the mantissa *)
(* held as a little-endian sequence of 15-bit limbs because it does not    *)
(* fit the integers of the model checker.  Every arithmetic operation      *)
(* rounds to nearest, ties to even, as the hardware does.                  *)
(***************************************************************************)
EXTENDS Integers, Sequences, FiniteSets, TLC

(***************************************************************************)
(* Bounds of the model.                                                    *)
(***************************************************************************)
\* the longest image list handed to a PDFWorker
MaxImages == 3
\* the largest image width or height the layout is computed for
MaxDim == 52
\* the largest batch size the progress percentage is computed for
MaxTotal == 50
\* the longest list the window holds, and the runs it starts
MaxListLen == 2
MaxRuns == 2

(***************************************************************************)
(* Natural numbers of any size: little-endian sequences of limbs below     *)
(* Base, without high zero limbs; zero is the empty sequence.              *)
(***************************************************************************)
Base == 2^15

RECURSIVE BigNorm(_)
BigNorm(s) ==
    IF s = <<>> THEN s
    ELSE IF s[Len(s)] = 0 THEN BigNorm(SubSeq(s, 1, Len(s) - 1))
    ELSE s

RECURSIVE BigFromInt(_)
BigFromInt(n) ==
    IF n = 0 THEN <<>> ELSE <<n % Base>> \o BigFromInt(n \div Base)

\* only for values that fit an integer of the model checker
RECURSIVE BigToInt(_)
BigToInt(s) ==
    IF s = <<>> THEN 0 ELSE s[1] + Base * BigToInt(Tail(s))

RECURSIVE BigMulCarry(_, _, _)
BigMulCarry(s, k, c) ==
    IF s = <<>> THEN BigFromInt(c)
    ELSE LET t == s[1] * k + c
         IN  <<t % Base>> \o BigMulCarry(Tail(s), k, t \div Base)

\* s * k for 0 <= k < Base
BigMulSmall(s, k) == BigNorm(BigMulCarry(s, k, 0))

\* <<quotient limbs, remainder>> of s by k, 0 < k < Base; quotient not normalised
BigDivStep(hi, limb, k) ==
    <<(<<(hi[2] * Base + limb) \div k>> \o hi[1]), (hi[2] * Base + limb) % k>>

RECURSIVE BigDivRem(_, _)
BigDivRem(s, k) ==
    IF s = <<>> THEN <<(<<>>), 0>>
    ELSE BigDivStep(BigDivRem(Tail(s), k), s[1], k)

BigDivSmall(s, k) == BigNorm(BigDivRem(s, k)[1])

RECURSIVE BigAddCarry(_, _, _)
BigAddCarry(a, b, c) ==
    IF a = <<>> /\ b = <<>> THEN BigFromInt(c)
    ELSE LET x == IF a = <<>> THEN 0 ELSE a[1]
             y == IF b = <<>> THEN 0 ELSE b[1]
             t == x + y + c
         IN  <<t % Base>> \o
             BigAddCarry(IF a = <<>> THEN a ELSE Tail(a),
                         IF b = <<>> THEN b ELSE Tail(b), t \div Base)

BigAdd(a, b) == BigNorm(BigAddCarry(a, b, 0))

\* a - b for a >= b
RECURSIVE BigSubBorrow(_, _, _)
BigSubBorrow(a, b, c) ==
    IF a = <<>> THEN <<>>
    ELSE LET y == IF b = <<>> THEN 0 ELSE b[1]
             t == a[1] - y - c
         IN  <<t % Base>> \o
             BigSubBorrow(Tail(a), IF b = <<>> THEN b ELSE Tail(b),
                          IF t < 0 THEN 1 ELSE 0)

BigSub(a, b) == BigNorm(BigSubBorrow(a, b, 0))

\* -1, 0 or 1 as a < b, a = b, a > b (both normalised)
RECURSIVE BigCmpSameLen(_, _, _)
BigCmpSameLen(a, b, i) ==
    IF i = 0 THEN 0
    ELSE IF a[i] < b[i] THEN -1
    ELSE IF a[i] > b[i] THEN 1
    ELSE BigCmpSameLen(a, b, i - 1)

BigCmp(a, b) ==
    IF Len(a) < Len(b) THEN -1
    ELSE IF Len(a) > Len(b) THEN 1
    ELSE BigCmpSameLen(a, b, Len(a))

RECURSIVE IntBitLen(_)
IntBitLen(n) == IF n = 0 THEN 0 ELSE 1 + IntBitLen(n \div 2)

BigBitLen(s) ==
    IF s = <<>> THEN 0 ELSE 15 * (Len(s) - 1) + IntBitLen(s[Len(s)])

BigShiftLeft(s, n) ==
    IF s = <<>> THEN s
    ELSE BigMulSmall([i \in 1..(n \div 15) |-> 0] \o s, 2^(n % 15))

BigShiftRight(s, n) ==
    IF n \div 15 >= Len(s) THEN <<>>
    ELSE BigDivSmall(SubSeq(s, (n \div 15) + 1, Len(s)), 2^(n % 15))

BigIsOdd(s) == s # <<>> /\ s[1] % 2 = 1

(***************************************************************************)
(* IEEE-754 doubles.  A double is [neg, m, e]: the value (-1)^neg * m *    *)
(* 2^e with m of exactly 53 bits, or zero (m = <<>>, e = 0, neg = FALSE).  *)
(* The sizes the model reaches are far from overflow and underflow.        *)
(***************************************************************************)
FZero == [neg |-> FALSE, m |-> <<>>, e |-> 0]

\* the double nearest to (n + f) * 2^e, where 0 <= f < 1 and sticky says f > 0;
\* a caller that passes sticky passes an n of at least 55 bits
\* a mantissa of 53 bits, or of 54 after a carry out of the rounding
FPack(neg, m1, e) ==
    IF BigBitLen(m1) = 54
    THEN [neg |-> neg, m |-> BigShiftRight(m1, 1), e |-> e + 1]
    ELSE [neg |-> neg, m |-> m1, e |-> e]

\* q rounded up or not; c compares the bits cut off with one half
FRoundedMantissa(q, c, sticky) ==
    IF c > 0 \/ (c = 0 /\ (sticky \/ BigIsOdd(q)))
    THEN BigAdd(q, <<1>>)
    ELSE q

\* n cut by d bits to q
FRoundCut(neg, n, e, sticky, d, q) ==
    FPack(neg,
          FRoundedMantissa(q,
                           BigCmp(BigSub(n, BigShiftLeft(q, d)),
                                  BigShiftLeft(<<1>>, d - 1)),
                           sticky),
          e + d)

\* n has L bits
FRoundLen(neg, n, e, sticky, L) ==
    IF L <= 53
    THEN [neg |-> neg, m |-> BigShiftLeft(n, 53 - L), e |-> e - (53 - L)]
    ELSE FRoundCut(neg, n, e, sticky, L - 53, BigShiftRight(n, L - 53))

FRound(neg, n, e, sticky) ==
    IF n = <<>> THEN FZero ELSE FRoundLen(neg, n, e, sticky, BigBitLen(n))

\* float(n) for an integer n >= 0 (exact below 2^53)
FFromInt(n) == FRound(FALSE, BigFromInt(n), 0, FALSE)

\* a / k for a double a >= 0 and an integer 0 < k < Base
\* the double nearest to (quotient + remainder / k) * 2^e, qr from BigDivRem
FRoundQuotient(neg, qr, e) == FRound(neg, BigNorm(qr[1]), e, qr[2] # 0)

\* m * 2^e / k, computed with s more bits
FDivShifted(neg, m, e, k, s) ==
    FRoundQuotient(neg, BigDivRem(BigShiftLeft(m, s), k), e - s)

FDivInt(a, k) ==
    IF a.m = <<>> THEN FZero
    ELSE FDivShifted(a.neg, a.m, a.e, k, IntBitLen(k) + 2)

\* n / k for integers n >= 0, 0 < k < Base: Python's true division of two ints
\* is the correctly rounded quotient
FIntDivInt(n, k) ==
    IF n = 0 THEN FZero
    ELSE FDivShifted(FALSE, BigFromInt(n), 0, k, 55 + IntBitLen(k))

\* a * k for a double a and an integer 0 <= k < Base
FMulInt(a, k) ==
    IF k = 0 THEN FZero ELSE FRound(a.neg, BigMulSmall(a.m, k), a.e, FALSE)

MinInt(x, y) == IF x < y THEN x ELSE y

\* -1, 0, 1 as |a| < |b|, |a| = |b|, |a| > |b|
FCmpAbs(a, b) ==
    IF a.m = <<>> \/ b.m = <<>>
    THEN (IF a.m = b.m THEN 0 ELSE IF a.m = <<>> THEN -1 ELSE 1)
    ELSE IF a.e # b.e THEN (IF a.e < b.e THEN -1 ELSE 1)
    ELSE BigCmp(a.m, b.m)

\* -1, 0, 1 as a < b, a = b, a > b
FCmp(a, b) ==
    IF a.neg /\ ~b.neg THEN -1
    ELSE IF ~a.neg /\ b.neg THEN 1
    ELSE IF a.neg THEN 0 - FCmpAbs(a, b)
    ELSE FCmpAbs(a, b)

\* Python's min(a, b): b only when b < a
FMin(a, b) == IF FCmp(b, a) < 0 THEN b ELSE a

\* a - b for doubles a, b >= 0
\* x * 2^e0 - y * 2^e0, c comparing x with y
FSubCompared(x, y, e0, c) ==
    IF c = 0 THEN FZero
    ELSE IF c > 0 THEN FRound(FALSE, BigSub(x, y), e0, FALSE)
    ELSE FRound(TRUE, BigSub(y, x), e0, FALSE)

FSubAligned(x, y, e0) == FSubCompared(x, y, e0, BigCmp(x, y))

FSubAt(a, b, e0) ==
    FSubAligned(BigShiftLeft(a.m, a.e - e0), BigShiftLeft(b.m, b.e - e0), e0)

FSub(a, b) ==
    IF b.m = <<>> THEN a
    ELSE IF a.m = <<>> THEN [b EXCEPT !.neg = TRUE]
    ELSE FSubAt(a, b, MinInt(a.e, b.e))

\* a / 2: exact
FHalf(a) == IF a.m = <<>> THEN FZero ELSE [a EXCEPT !.e = a.e - 1]

\* int(a) for a double a >= 0: truncation towards zero
FTrunc(a) ==
    IF a.m = <<>> THEN 0
    ELSE IF a.e >= 0 THEN BigToInt(BigShiftLeft(a.m, a.e))
    ELSE BigToInt(BigShiftRight(a.m, 0 - a.e))

(***************************************************************************)
(* The state.                                                              *)
(*   workers  the PDFWorker objects constructed so far, in order           *)
(*   ui       the ImageToPDF window                                        *)
(*   queue    signals emitted by a worker thread and not yet delivered to  *)
(*            the slots connected in the window's thread                   *)
(*   calc     the argument and result of a function computed on its own    *)
(***************************************************************************)
VARIABLES workers, ui, queue, calc

vars == <<workers, ui, queue, calc>>

(***************************************************************************)
(* Files.  A path is a directory, a stem and an extension; what is on disk *)
(* under it decides what Image.open and drawImage do with it.              *)
(***************************************************************************)
Path(dir, stem, ext) == [dir |-> dir, stem |-> stem, ext |-> ext]

\* a sound 800x600 image
PathA == Path("pics", "a", ".png")
\* not an image: Image.open raises
PathB == Path("pics", "b", ".jpg")
\* a header that Image.open reads (400x400) over data drawImage cannot load
PathT == Path("pics", "t", ".png")
\* an image whose decoded width is 0
PathZ == Path("pics", "z", ".bmp")
\* a sound image under an upper-case extension, and a file that is no image
PathU == Path("pics", "u", ".PNG")
PathN == Path("docs", "notes", ".txt")

Disk(p) ==
    CASE p = PathA -> [decodes |-> TRUE, width |-> 800, height |-> 600, draws |-> TRUE]
      [] p = PathB -> [decodes |-> FALSE, width |-> 0, height |-> 0, draws |-> FALSE]
      [] p = PathT -> [decodes |-> TRUE, width |-> 400, height |-> 400, draws |-> FALSE]
      [] p = PathZ -> [decodes |-> TRUE, width |-> 0, height |-> 600, draws |-> TRUE]
      [] p = PathU -> [decodes |-> TRUE, width |-> 400, height |-> 400, draws |-> TRUE]
      [] OTHER     -> [decodes |-> FALSE, width |-> 0, height |-> 0, draws |-> FALSE]

AllPaths == {PathA, PathB, PathT, PathZ, PathU, PathN}

\* the paths a PDFWorker is constructed with
WorkerPaths == {PathA, PathB, PathT, PathZ}

\* os.path.basename
Basename(p) == [stem |-> p.stem, ext |-> p.ext]

\* all sequences over S of length at most n
SeqsUpTo(S, n) == UNION {[1..k -> S] : k \in 0..n}

(***************************************************************************)
(* reportlab's A4, (210*mm, 297*mm) with mm = 72/25.4, as doubles:         *)
(* 0x1.29a3468d1a347p+9 = 595.2755905511812 and                            *)
(* 0x1.a4f1e3c78f1e5p+9 = 841.8897637795277.                               *)
(***************************************************************************)
A4 ==
    [w |-> [neg |-> FALSE, m |-> <<9031, 20899, 26833, 148>>, e |-> -43],
     h |-> [neg |-> FALSE, m |-> <<29157, 30961, 15480, 210>>, e |-> -43]]

(***************************************************************************)
(* The layout of one decoded image, lines 134-149 of PDFWorker.run without *)
(* the canvas call: the page size, the ratio, the drawn size, the offset.  *)
(* A zero width or height divides by zero under the A4 policy.             *)
(***************************************************************************)
\* lines 146-149, from the drawn size on
Placed(page_width, page_height, ratio, new_width, new_height) ==
    [ok |-> TRUE,
     page_width |-> page_width, page_height |-> page_height,
     ratio |-> ratio,
     new_width |-> new_width, new_height |-> new_height,
     x |-> FHalf(FSub(page_width, new_width)),
     y |-> FHalf(FSub(page_height, new_height))]

\* lines 146-147: ratio is the int 1 or a float
Scaled(page_width, page_height, ratio, width, height) ==
    Placed(page_width, page_height, ratio,
           FMulInt(ratio, width), FMulInt(ratio, height))

\* a faulty variant of line 144: the ratio never enlarges the image
FitRatioClamped(page_width, page_height, width, height) ==
    FMin(FFromInt(1),
         FMin(FDivInt(page_width, width), FDivInt(page_height, height)))

\* line 144
FitRatio(page_width, page_height, width, height) ==
    FMin(FDivInt(page_width, width), FDivInt(page_height, height))

Layout(width, height, use_a4) ==
    IF ~use_a4
    THEN Scaled(FFromInt(width), FFromInt(height), FFromInt(1), width, height)
    ELSE IF width = 0 \/ height = 0
    THEN [ok |-> FALSE, error |-> "ZeroDivisionError"]
    ELSE Scaled(A4.w, A4.h, FitRatio(A4.w, A4.h, width, height), width, height)

\* faulty variants of line 164: the index counted from zero, and the
\* quotient rounded to the nearest integer
PercentZeroBased(idx, total) ==
    FTrunc(FMulInt(FIntDivInt(idx - 1, total), 100))
PercentRounded(idx, total) == (200 * idx + total) \div (2 * total)

\* int(idx / total * 100)
Percent(idx, total) == FTrunc(FMulInt(FIntDivInt(idx, total), 100))

(***************************************************************************)
(* The two computations above for the files and the batch sizes the runs   *)
(* below meet, computed once: what run() computes for image idx of total,  *)
(* and for the decoded size of the file under a path.                      *)
(***************************************************************************)
PercentOf ==
    [total \in 1..(MaxImages + MaxListLen) |->
        [idx \in 1..total |-> Percent(idx, total)]]

PathSeq == <<PathA, PathB, PathT, PathZ, PathU, PathN>>

PathIndex(p) == CHOOSE i \in 1..Len(PathSeq) : PathSeq[i] = p

LayoutOfFile ==
    [i \in 1..Len(PathSeq) |->
        [policy \in 1..2 |->
            Layout(Disk(PathSeq[i]).width, Disk(PathSeq[i]).height, policy = 1)]]

LayoutOf(img_path, use_a4) ==
    LayoutOfFile[PathIndex(img_path)][IF use_a4 THEN 1 ELSE 2]

(***************************************************************************)
(* The reportlab canvas as PDFWorker.run uses it: the size of the current  *)
(* page, the operators painted on the current page and not yet committed   *)
(* (the canvas's _code), and the committed pages.                          *)
(***************************************************************************)
\* canvas.Canvas(output_file[, pagesize=A4]): the default page size is A4 too
Canvas == [pagesize |-> <<A4.w, A4.h>>, code |-> <<>>, pages |-> <<>>]

setPageSize(c, size) == [c EXCEPT !.pagesize = size]

setFillColorRGB(c) == [c EXCEPT !.code = Append(@, [op |-> "rg"])]

rect(c, w, h) == [c EXCEPT !.code = Append(@, [op |-> "re", w |-> w, h |-> h])]

\* drawImage of a file it can load; a width or height below 1e-6 paints nothing
drawImage(c, img_path, x, y, width, height) ==
    IF width.m = <<>> \/ height.m = <<>> THEN c
    ELSE [c EXCEPT !.code = Append(@, [op |-> "Do", image |-> img_path,
                                      x |-> x, y |-> y,
                                      width |-> width, height |-> height])]

showPage(c) ==
    [c EXCEPT !.pages = Append(@, [size |-> c.pagesize, code |-> c.code]),
              !.code = <<>>]

\* a faulty variant of save(): a page is committed whatever the canvas holds
savePagesAlways(c) == showPage(c).pages

\* the pages save() hands to the file: it commits a page that holds paint
savePages(c) == IF c.code # <<>> THEN showPage(c).pages ELSE c.pages

(***************************************************************************)
(* PDFWorker.                                                              *)
(***************************************************************************)
\* PDFWorker.__init__; connected: the window has connected its slots
PDFWorker(images, use_a4, connected) ==
    [pc |-> "idle", images |-> images, use_a4 |-> use_a4,
     connected |-> connected,
     total |-> 0, idx |-> 0, failed_images |-> <<>>, c |-> Canvas,
     save_calls |-> 0, saved |-> "no", document |-> <<>>,
     signals |-> <<>>]

\* lines 119-129, and the for statement finding the list empty
RunBeginW(w) ==
    [w EXCEPT !.pc = IF Len(w.images) = 0 THEN "finalizing" ELSE "running",
              !.failed_images = <<>>,
              !.c = Canvas,
              !.total = Len(w.images)]

\* the body of the inner try, lines 133-158: the canvas it leaves and the
\* exception it raised, if any
\* lines 155-158, on the canvas c2 that holds the background
DrawOn(c2, img_path, f, lay) ==
    IF ~f.draws
    THEN [c |-> c2, raised |-> TRUE, error |-> "OSError"]
    ELSE [c |-> showPage(drawImage(c2, img_path, lay.x, lay.y,
                                   lay.new_width, lay.new_height)),
          raised |-> FALSE, error |-> "none"]

\* lines 134-158 for a decoded image f, c1 the canvas after line 138
PaintOn(c1, img_path, f, lay) ==
    IF ~lay.ok
    THEN [c |-> c1, raised |-> TRUE, error |-> lay.error]
    ELSE DrawOn(rect(setFillColorRGB(c1), lay.page_width, lay.page_height),
                img_path, f, lay)

TryDecoded(c, img_path, use_a4, f) ==
    IF ~f.decodes
    THEN [c |-> c, raised |-> TRUE, error |-> "UnidentifiedImageError"]
    ELSE PaintOn(IF use_a4 THEN c
                 ELSE setPageSize(c, <<LayoutOf(img_path, use_a4).page_width,
                                       LayoutOf(img_path, use_a4).page_height>>),
                 img_path, f, LayoutOf(img_path, use_a4))

TryImage(c, img_path, use_a4) == TryDecoded(c, img_path, use_a4, Disk(img_path))

\* one iteration of the loop, lines 131-164
\* a faulty variant of lines 159-164: the first failed image ends the loop
AfterImageAbort(w, idx, img_path, body) ==
    [w EXCEPT
       !.idx = idx,
       !.c = body.c,
       !.failed_images =
           IF body.raised
           THEN Append(@, [kind |-> "image", name |-> Basename(img_path),
                           error |-> body.error])
           ELSE @,
       !.signals = Append(@, [sig |-> "progress",
                              val |-> PercentOf[w.total][idx]]),
       !.pc = IF idx = w.total \/ body.raised THEN "finalizing" ELSE "running"]

\* lines 159-164: body is what the inner try did with image idx
AfterImage(w, idx, img_path, body) ==
    [w EXCEPT
       !.idx = idx,
       !.c = body.c,
       !.failed_images =
           IF body.raised
           THEN Append(@, [kind |-> "image", name |-> Basename(img_path),
                           error |-> body.error])
           ELSE @,
       !.signals = Append(@, [sig |-> "progress",
                              val |-> PercentOf[w.total][idx]]),
       !.pc = IF idx = w.total THEN "finalizing" ELSE "running"]

ProcessImageW(w) ==
    AfterImage(w, w.idx + 1, w.images[w.idx + 1],
               TryImage(w.c, w.images[w.idx + 1], w.use_a4))

\* faulty variants of lines 167-169: the outer except replaces the report
\* by its own entry; and a failed save is not caught, so that run() ends
\* without reaching line 172
SaveWithReportReplaced(w, ok, pages) ==
    [w EXCEPT
       !.save_calls = @ + 1,
       !.saved = IF ok THEN "ok" ELSE "failed",
       !.c = [@ EXCEPT !.pages = pages, !.code = <<>>],
       !.document = IF ok THEN pages ELSE <<>>,
       !.failed_images =
           IF ok THEN @
           ELSE <<[kind |-> "builder", name |-> "PDF creation failed",
                   error |-> "OSError"]>>]
SaveWithUncaught(w, ok, pages) ==
    [w EXCEPT
       !.save_calls = @ + 1,
       !.saved = IF ok THEN "ok" ELSE "failed",
       !.c = [@ EXCEPT !.pages = pages, !.code = <<>>],
       !.document = IF ok THEN pages ELSE <<>>,
       !.pc = IF ok THEN @ ELSE "done"]

\* c.save() and the outer except, lines 167-169; ok: the file could be written
SaveWith(w, ok, pages) ==
    [w EXCEPT
       !.save_calls = @ + 1,
       !.saved = IF ok THEN "ok" ELSE "failed",
       !.c = [@ EXCEPT !.pages = pages, !.code = <<>>],
       !.document = IF ok THEN pages ELSE <<>>,
       !.failed_images =
           IF ok THEN @
           ELSE Append(@, [kind |-> "builder", name |-> "PDF creation failed",
                           error |-> "OSError"])]

SaveW(w, ok) == SaveWith(w, ok, savePages(w.c))

\* self.finished.emit(failed_images), line 172
EmitFinishedW(w) ==
    [w EXCEPT !.pc = "done",
              !.signals = Append(@, [sig |-> "finished",
                                     val |-> w.failed_images])]

\* the signals w2 emitted beyond w's, as queued calls of worker i's slots
Emitted(i, w, w2) ==
    IF w.connected
    THEN [k \in 1..(Len(w2.signals) - Len(w.signals)) |->
             [worker |-> i, signal |-> w2.signals[Len(w.signals) + k]]]
    ELSE <<>>

WorkerStep(i, w2) ==
    /\ workers' = [workers EXCEPT ![i] = w2]
    /\ queue' = queue \o Emitted(i, workers[i], w2)
    /\ UNCHANGED <<ui, calc>>

RunBegin(i) ==
    /\ workers[i].pc = "idle"
    /\ WorkerStep(i, RunBeginW(workers[i]))

ProcessImage(i) ==
    /\ workers[i].pc = "running"
    /\ WorkerStep(i, ProcessImageW(workers[i]))

Save(i) ==
    /\ workers[i].pc = "finalizing"
    /\ workers[i].saved = "no"
    /\ \E ok \in BOOLEAN : WorkerStep(i, SaveW(workers[i], ok))

EmitFinished(i) ==
    /\ workers[i].pc = "finalizing"
    /\ workers[i].saved # "no"
    /\ WorkerStep(i, EmitFinishedW(workers[i]))

(***************************************************************************)
(* The window before any click.                                            *)
(***************************************************************************)
InitUI ==
    [list_widget |-> <<>>,
     add_btn |-> TRUE, preview_btn |-> TRUE, clear_btn |-> TRUE,
     save_btn |-> TRUE,
     page_size_combo |-> "A4 Page",
     progress_visible |-> FALSE, progress_value |-> 0,
     cursor |-> 0, worker |-> 0, handled |-> <<>>]

NoCalc == [fn |-> "none"]

(***************************************************************************)
(* Spec: one PDFWorker, constructed with any list of images and either     *)
(* page policy, runs.                                                      *)
(***************************************************************************)
Init ==
    /\ \E images \in SeqsUpTo(WorkerPaths, MaxImages), use_a4 \in BOOLEAN :
           workers = <<PDFWorker(images, use_a4, FALSE)>>
    /\ ui = InitUI
    /\ queue = <<>>
    /\ calc = NoCalc

Next ==
    \/ \E i \in DOMAIN workers : RunBegin(i)
    \/ \E i \in DOMAIN workers : ProcessImage(i)
    \/ \E i \in DOMAIN workers : Save(i)
    \/ \E i \in DOMAIN workers : EmitFinished(i)

Spec == Init /\ [][Next]_vars

\* the thread, once started, runs to the end of run()
FairSpec == Spec /\ WF_vars(Next)

(***************************************************************************)
(* The window.  Every handler runs to its end in the window's thread; the  *)
(* dialogs it opens are modal and closed before it returns.  handled[i]    *)
(* counts the calls of pdf_finished for the finished signal of worker i.   *)
(***************************************************************************)
\* the files the user picks in the file dialog, and the ones dropped on the list
DialogPaths == {PathA, PathB}
DropPaths == {PathU, PathN}

\* str.lower() on an extension
Lower(ext) == IF ext = ".PNG" THEN ".png" ELSE ext

\* path.lower().endswith((".jpg", ".jpeg", ".png", ".bmp", ".tiff"))
IsImagePath(p) == Lower(p.ext) \in {".jpg", ".jpeg", ".png", ".bmp", ".tiff"}

\* DragDropList.add_image_item, for each path in turn
AddItems(u, paths) == [u EXCEPT !.list_widget = @ \o paths]

\* a faulty variant of set_ui_busy: Create PDF stays enabled
set_ui_busy_save_enabled(u, busy) ==
    [u EXCEPT !.add_btn = ~busy,
              !.preview_btn = ~busy,
              !.clear_btn = ~busy,
              !.cursor = IF busy THEN @ + 1 ELSE IF @ > 0 THEN @ - 1 ELSE 0]

set_ui_busy(u, busy) ==
    [u EXCEPT !.add_btn = ~busy,
              !.preview_btn = ~busy,
              !.clear_btn = ~busy,
              !.save_btn = ~busy,
              !.cursor = IF busy THEN @ + 1 ELSE IF @ > 0 THEN @ - 1 ELSE 0]

UIStep(u2) ==
    /\ ui' = u2
    /\ UNCHANGED <<workers, queue, calc>>

\* a click on Add Images; no file chosen: the dialog was cancelled
add_images ==
    /\ ui.add_btn
    /\ \E files \in SeqsUpTo(DialogPaths, MaxListLen) :
           /\ Len(ui.list_widget) + Len(files) <= MaxListLen
           /\ UIStep(AddItems(ui, files))

\* files dropped on the list: the list accepts drops whatever the buttons say
dropEvent ==
    \E urls \in SeqsUpTo(DropPaths, 1) :
        /\ Len(ui.list_widget) + Len(urls) <= MaxListLen
        /\ UIStep(AddItems(ui, SelectSeq(urls, IsImagePath)))

\* a click on Clear List
clear ==
    /\ ui.clear_btn
    /\ UIStep([ui EXCEPT !.list_widget = <<>>])

\* a click on Preview: a dialog, or a message box, opened and closed
preview_images ==
    /\ ui.preview_btn
    /\ UIStep(ui)

\* the page size combo box
select_page_size ==
    \E text \in {"A4 Page", "Use Image Size"} :
        UIStep([ui EXCEPT !.page_size_combo = text])

\* lines 414-421 of save_pdf
StartWorker(u, n) ==
    [set_ui_busy(u, TRUE) EXCEPT !.progress_value = 0,
                                 !.progress_visible = TRUE,
                                 !.worker = n,
                                 !.handled = Append(@, 0)]

\* a click on Create PDF; output_file: the name chosen in the save dialog, ""
\* when the dialog was cancelled
save_pdf ==
    /\ ui.save_btn
    /\ \E output_file \in {"", "output.pdf"} :
           IF ui.list_widget = <<>> \/ output_file = "" \/ Len(workers) >= MaxRuns
           THEN UIStep(ui)
           ELSE /\ ui' = StartWorker(ui, Len(workers) + 1)
                /\ workers' = Append(workers,
                                     PDFWorker(ui.list_widget,
                                               ui.page_size_combo = "A4 Page",
                                               TRUE))
                /\ UNCHANGED <<queue, calc>>

\* what is left of a worker object after deleteLater
Deleted(w) == [PDFWorker(<<>>, w.use_a4, FALSE) EXCEPT !.pc = "deleted"]

\* pdf_finished, called for the finished signal of worker i
pdf_finished(u, i, failed_images) ==
    [set_ui_busy(u, FALSE) EXCEPT !.progress_visible = FALSE,
                                  !.handled[i] = @ + 1]

\* the event loop delivers the oldest queued signal to its slot:
\* progress_bar.setValue or pdf_finished
Deliver ==
    /\ queue # <<>>
    /\ queue' = Tail(queue)
    /\ IF Head(queue).signal.sig = "progress"
       THEN /\ ui' = [ui EXCEPT !.progress_value = Head(queue).signal.val]
            /\ UNCHANGED workers
       ELSE /\ ui' = pdf_finished(ui, Head(queue).worker, Head(queue).signal.val)
            /\ workers' = [workers EXCEPT ![ui.worker] = Deleted(@)]
    /\ UNCHANGED calc

InitWindow ==
    /\ workers = <<>>
    /\ ui = InitUI
    /\ queue = <<>>
    /\ calc = NoCalc

NextUI ==
    \/ add_images
    \/ dropEvent
    \/ clear
    \/ preview_images
    \/ select_page_size
    \/ save_pdf
    \/ Deliver
    \/ \E i \in DOMAIN workers : RunBegin(i)
    \/ \E i \in DOMAIN workers : ProcessImage(i)
    \/ \E i \in DOMAIN workers : Save(i)
    \/ \E i \in DOMAIN workers : EmitFinished(i)

SpecUI == InitWindow /\ [][NextUI]_vars

\* a started thread runs to the end of run(), and the event loop of the
\* window delivers every queued signal; the user owes nothing
FairSpecUI ==
    /\ SpecUI
    /\ WF_vars(Next)
    /\ WF_vars(Deliver)

(***************************************************************************)
(* SpecPercent: the progress value of every image of every batch size up   *)
(* to MaxTotal, as the loop computes them one after the other.             *)
(***************************************************************************)
InitPercent ==
    /\ \E total \in 1..MaxTotal :
           calc = [fn |-> "percent", total |-> total, idx |-> 0, val |-> 0]
    /\ workers = <<>>
    /\ ui = InitUI
    /\ queue = <<>>

EmitProgress ==
    /\ calc.fn = "percent"
    /\ calc.idx < calc.total
    /\ calc' = [calc EXCEPT !.idx = @ + 1,
                            !.val = Percent(calc.idx + 1, calc.total)]
    /\ UNCHANGED <<workers, ui, queue>>

NextPercent == EmitProgress

SpecPercent == InitPercent /\ [][NextPercent]_vars

(***************************************************************************)
(* SpecLayout: the layout of one decoded image of any width and height up  *)
(* to MaxDim, or of a common photo size, under either page policy.         *)
(***************************************************************************)
Dims == (0..MaxDim) \cup {400, 500, 600, 800, 1000}

NotComputed == [ok |-> FALSE, error |-> "not computed"]

InitLayout ==
    /\ \E width \in Dims, height \in Dims, use_a4 \in BOOLEAN :
           calc = [fn |-> "layout", width |-> width, height |-> height,
                   use_a4 |-> use_a4, done |-> FALSE, out |-> NotComputed]
    /\ workers = <<>>
    /\ ui = InitUI
    /\ queue = <<>>

ComputeLayout ==
    /\ calc.fn = "layout"
    /\ ~calc.done
    /\ calc' = [calc EXCEPT !.done = TRUE,
                            !.out = Layout(calc.width, calc.height, calc.use_a4)]
    /\ UNCHANGED <<workers, ui, queue>>

NextLayout == ComputeLayout

SpecLayout == InitLayout /\ [][NextLayout]_vars

(***************************************************************************)
(* What the properties below speak of.                                     *)
(***************************************************************************)
\* image p raises inside the inner try: at Image.open, at the division by a
\* zero size under the A4 policy, or at drawImage
ImageFails(p, use_a4) ==
    \/ ~Disk(p).decodes
    \/ use_a4 /\ (Disk(p).width = 0 \/ Disk(p).height = 0)
    \/ ~Disk(p).draws

\* the decoded width or height of p is not positive
ZeroSized(p) ==
    Disk(p).decodes /\ (Disk(p).width = 0 \/ Disk(p).height = 0)

\* the indices up to k, in order, of the images that are in the set S
RECURSIVE Indices(_, _, _)
Indices(images, k, S) ==
    IF k = 0 THEN <<>>
    ELSE Indices(images, k - 1, S) \o
         (IF images[k] \in S THEN <<k>> ELSE <<>>)

FailedIndices(w, k) ==
    Indices(w.images, k, {p \in AllPaths : ImageFails(p, w.use_a4)})
SucceededIndices(w, k) ==
    Indices(w.images, k, {p \in AllPaths : ~ImageFails(p, w.use_a4)})

\* the file names of the images at the indices ix
NamesAt(images, ix) == [k \in 1..Len(ix) |-> Basename(images[ix[k]])]

IsImageEntry(e) == e.kind = "image"
IsBuilderEntry(e) == e.kind = "builder"
IsProgress(s) == s.sig = "progress"
IsFinished(s) == s.sig = "finished"

\* the per-image entries of a failure report, and the names in them
PerImage(report) == SelectSeq(report, IsImageEntry)
EntryNames(report) == [k \in 1..Len(report) |-> report[k].name]

\* the progress values a worker has emitted, and the reports it has delivered
ProgressOf(w) ==
    [k \in 1..Len(SelectSeq(w.signals, IsProgress)) |->
        SelectSeq(w.signals, IsProgress)[k].val]
ReportsOf(w) ==
    [k \in 1..Len(SelectSeq(w.signals, IsFinished)) |->
        SelectSeq(w.signals, IsFinished)[k].val]

\* the images painted on a page
ImagesOn(page) == {page.code[k].image : k \in {j \in DOMAIN page.code : page.code[j].op = "Do"}}

Started(w) == w.pc # "idle"
LoopOver(w) == w.pc \in {"finalizing", "done"}

(***************************************************************************)
(* C1.  Whatever images fail, the run goes through all of them, and the    *)
(* report it delivers holds one entry per failed image, named after that   *)
(* image, in input order, and none for an image that succeeded.            *)
(***************************************************************************)
C1_FaultIsolation ==
    \A i \in DOMAIN workers :
        LET w == workers[i] IN
        Started(w) =>
            /\ EntryNames(PerImage(w.failed_images))
                   = NamesAt(w.images, FailedIndices(w, w.idx))
            /\ LoopOver(w) => w.idx = Len(w.images)
            /\ w.pc = "done" =>
                   /\ Len(ReportsOf(w)) = 1
                   /\ EntryNames(PerImage(ReportsOf(w)[1]))
                          = NamesAt(w.images, FailedIndices(w, Len(w.images)))

\* a run of three images whose second failed and whose third made a page
C1_Witness ==
    \E i \in DOMAIN workers :
        LET w == workers[i] IN
        /\ w.pc = "done"
        /\ Len(w.images) = 3
        /\ FailedIndices(w, 3) = <<2>>
        /\ Len(PerImage(w.failed_images)) = 1
        /\ Len(w.c.pages) = 2

(***************************************************************************)
(* C2.  The saved document holds one page per image that succeeded, in     *)
(* input order, and no page for a failed image.                            *)
(***************************************************************************)
C2_PagesAreSucceededImages ==
    \A i \in DOMAIN workers :
        LET w == workers[i] IN
        w.saved = "ok" =>
            /\ Len(w.document) = Len(SucceededIndices(w, Len(w.images)))
            /\ \A k \in DOMAIN w.document :
                   /\ k <= Len(SucceededIndices(w, Len(w.images)))
                   /\ ImagesOn(w.document[k])
                          \subseteq {w.images[SucceededIndices(w, Len(w.images))[k]]}

(***************************************************************************)
(* C3.  A run over N >= 1 images emits N progress values, one per image,   *)
(* each in 0..100, never decreasing, the last one 100.                     *)
(***************************************************************************)
NonDecreasing(s) == \A k \in 1..(Len(s) - 1) : s[k] <= s[k + 1]

C3_Progress ==
    \A i \in DOMAIN workers :
        LET w == workers[i] IN
        Started(w) =>
            /\ Len(ProgressOf(w)) = w.idx
            /\ \A k \in DOMAIN ProgressOf(w) : ProgressOf(w)[k] \in 0..100
            /\ NonDecreasing(ProgressOf(w))
            /\ LoopOver(w) /\ Len(w.images) >= 1 =>
                   /\ Len(ProgressOf(w)) = Len(w.images)
                   /\ ProgressOf(w)[Len(w.images)] = 100

\* a finished run of three images, one of them failed
C3_Witness ==
    \E i \in DOMAIN workers :
        LET w == workers[i] IN
        /\ w.pc = "done"
        /\ Len(w.images) = 3
        /\ Len(PerImage(w.failed_images)) >= 1
        /\ ProgressOf(w) = <<33, 66, 100>>

(***************************************************************************)
(* C5.  When the save fails, the report keeps every per-image entry and    *)
(* ends with exactly one builder-level entry, and it is still delivered    *)
(* through the finished signal.                                            *)
(***************************************************************************)
C5_SaveFailureReported ==
    \A i \in DOMAIN workers :
        LET w == workers[i] IN
        w.saved = "failed" =>
            /\ Len(w.failed_images) >= 1
            /\ IsBuilderEntry(w.failed_images[Len(w.failed_images)])
            /\ Len(SelectSeq(w.failed_images, IsBuilderEntry)) = 1
            /\ EntryNames(SubSeq(w.failed_images, 1, Len(w.failed_images) - 1))
                   = NamesAt(w.images, FailedIndices(w, Len(w.images)))
            /\ \A k \in 1..(Len(w.failed_images) - 1) :
                   IsImageEntry(w.failed_images[k])
            /\ w.pc = "done" => ReportsOf(w) = <<w.failed_images>>

\* a finished run whose save failed after two images had failed
C5_Witness ==
    \E i \in DOMAIN workers :
        LET w == workers[i] IN
        /\ w.pc = "done"
        /\ w.saved = "failed"
        /\ Len(w.failed_images) = 3
        /\ ReportsOf(w) = <<w.failed_images>>

C8_EmptyRunAsClaimed ==
    \A i \in DOMAIN workers :
        LET w == workers[i] IN
        w.images = <<>> /\ w.pc = "done" =>
            /\ ProgressOf(w) = <<>>
            /\ w.c.pages = <<>>
            /\ ReportsOf(w) = <<(<<>>)>>

\* C8 as amended: the report is empty when the save succeeds, and holds the
\* one builder-level entry when the save fails
C8_EmptyRun ==
    \A i \in DOMAIN workers :
        LET w == workers[i] IN
        w.images = <<>> /\ w.pc = "done" =>
            /\ ProgressOf(w) = <<>>
            /\ w.c.pages = <<>>
            /\ w.document = <<>>
            /\ Len(ReportsOf(w)) = 1
            /\ w.saved = "ok" => ReportsOf(w)[1] = <<>>
            /\ w.saved = "failed" =>
                   /\ Len(ReportsOf(w)[1]) = 1
                   /\ IsBuilderEntry(ReportsOf(w)[1][1])

\* a finished run over the empty list whose save succeeded
C8_Witness ==
    \E i \in DOMAIN workers :
        /\ workers[i].images = <<>>
        /\ workers[i].pc = "done"
        /\ workers[i].saved = "ok"

(***************************************************************************)
(* C9.  A run goes Idle -> Running -> Finalizing -> Done and ends: images  *)
(* one at a time in input order, at most one save and only after the last  *)
(* image and its progress value, the finished signal exactly once and      *)
(* last, whatever failed.                                                  *)
(***************************************************************************)
C9_Order ==
    \A i \in DOMAIN workers :
        LET w == workers[i] IN
        /\ w.idx <= Len(w.images)
        /\ Len(ProgressOf(w)) = w.idx
        /\ w.pc = "running" => w.idx < Len(w.images)
        /\ w.save_calls <= 1
        /\ w.save_calls = 1 <=> w.saved # "no"
        /\ w.save_calls = 1 =>
               /\ LoopOver(w)
               /\ w.idx = Len(w.images)
               /\ Len(ProgressOf(w)) = Len(w.images)
        /\ Len(ReportsOf(w)) = (IF w.pc = "done" THEN 1 ELSE 0)
        /\ w.pc = "done" =>
               /\ w.save_calls = 1
               /\ IsFinished(w.signals[Len(w.signals)])
               /\ ReportsOf(w) = <<w.failed_images>>

C9_StepOf(a, b) ==
    \/ a.pc = "idle" /\ b.pc = "running" /\ b.idx = 0 /\ Len(b.images) > 0
    \/ a.pc = "idle" /\ b.pc = "finalizing" /\ b.idx = 0 /\ Len(b.images) = 0
    \/ a.pc = "running" /\ b.pc \in {"running", "finalizing"} /\ b.idx = a.idx + 1
    \/ a.pc = "finalizing" /\ b.pc = "finalizing" /\ b.idx = a.idx
                           /\ a.saved = "no" /\ b.saved # "no"
    \/ a.pc = "finalizing" /\ b.pc = "done" /\ b.idx = a.idx /\ a.saved # "no"
    \/ a = b

C9_RunToCompletion ==
    /\ []C9_Order
    /\ [][\A i \in DOMAIN workers : C9_StepOf(workers[i], workers'[i])]_vars
    /\ <>(\A i \in DOMAIN workers : workers[i].pc = "done")

\* a finished run in which an image failed and the save failed too
C9_Witness ==
    \E i \in DOMAIN workers :
        LET w == workers[i] IN
        /\ w.pc = "done"
        /\ w.saved = "failed"
        /\ Len(w.images) = 2
        /\ Len(PerImage(w.failed_images)) = 1
        /\ Len(w.signals) = 3

(***************************************************************************)
(* C4.  The progress value after image i of N is the nearest integer to    *)
(* 100*i/N.                                                                *)
(***************************************************************************)
AbsInt(n) == IF n < 0 THEN 0 - n ELSE n

C4_PercentIsRounded ==
    calc.fn = "percent" /\ calc.idx >= 1 =>
        2 * AbsInt(100 * calc.idx - calc.total * calc.val) <= calc.total

\* C4 as amended: the value is the double product truncated, which is
\* floor(100*i/N) when 100*i/N is no integer, and 100*i/N or one less when
\* it is one; after the last image it is 100
C4_PercentIsTruncated ==
    calc.fn = "percent" /\ calc.idx >= 1 =>
        /\ (100 * calc.idx) % calc.total # 0 =>
               calc.val = (100 * calc.idx) \div calc.total
        /\ (100 * calc.idx) % calc.total = 0 =>
               calc.val \in {(100 * calc.idx) \div calc.total,
                             (100 * calc.idx) \div calc.total - 1}
        /\ calc.idx = calc.total => calc.val = 100

\* image 2 of 3 has been reported as 66
C4_Witness ==
    calc = [fn |-> "percent", total |-> 3, idx |-> 2, val |-> 66]

(***************************************************************************)
(* C7.  The layout of an image of positive size.  Exact arithmetic on the  *)
(* doubles of a layout: a dyadic is [neg, n, e], the value (-1)^neg * n *  *)
(* 2^e with n of any length.                                               *)
(***************************************************************************)
BigAbsDiff(x, y) == IF BigCmp(x, y) >= 0 THEN BigSub(x, y) ELSE BigSub(y, x)

\* the doubles next to a positive double
FNextUp(a) == FPack(a.neg, BigAdd(a.m, <<1>>), a.e)
FNextDown(a) ==
    IF BigBitLen(BigSub(a.m, <<1>>)) = 53
    THEN [a EXCEPT !.m = BigSub(a.m, <<1>>)]
    ELSE [a EXCEPT !.m = BigSub(BigShiftLeft(a.m, 1), <<1>>), !.e = a.e - 1]

\* n of the dyadic a at the exponent e0 <= a.e
AtExp(a, e0) == BigShiftLeft(a.m, a.e - e0)

\* |a * j - b * k| and a * j at the common exponent of the doubles a, b >= 0
CrossDiff(a, j, b, k) ==
    BigAbsDiff(BigMulSmall(AtExp(a, MinInt(a.e, b.e)), j),
               BigMulSmall(AtExp(b, MinInt(a.e, b.e)), k))
CrossLeft(a, j, b) == BigMulSmall(AtExp(a, MinInt(a.e, b.e)), j)

\* the aspect ratio imgW : imgH is that of new_width : new_height, exactly
\* or within the relative error 2^-51
AspectExact(lay, imgW, imgH) ==
    CrossDiff(lay.new_width, imgH, lay.new_height, imgW) = <<>>
AspectWithin(lay, imgW, imgH) ==
    BigCmp(BigShiftLeft(CrossDiff(lay.new_width, imgH, lay.new_height, imgW), 51),
           CrossLeft(lay.new_width, imgH, lay.new_height)) <= 0

MinInt3(x, y, z) == MinInt(x, MinInt(y, z))

\* |2 * off - (page - drawn)| and |page - drawn| at the common exponent e0
\* of the three doubles; page, drawn >= 0
CenterGap(off, page, drawn, e0) ==
    IF off.neg = (BigCmp(AtExp(page, e0), AtExp(drawn, e0)) < 0) \/ off.m = <<>>
    THEN BigAbsDiff(BigShiftLeft(AtExp(off, e0), 1),
                    BigAbsDiff(AtExp(page, e0), AtExp(drawn, e0)))
    ELSE BigAdd(BigShiftLeft(AtExp(off, e0), 1),
                BigAbsDiff(AtExp(page, e0), AtExp(drawn, e0)))
CenterSpan(page, drawn, e0) == BigAbsDiff(AtExp(page, e0), AtExp(drawn, e0))

\* off is (page - drawn) / 2, rounded to the nearest double
CenteredWithin(off, page, drawn) ==
    IF page = drawn THEN off = FZero
    ELSE BigCmp(BigShiftLeft(CenterGap(off, page, drawn,
                                       MinInt3(off.e, page.e, drawn.e)), 53),
                CenterSpan(page, drawn, MinInt3(off.e, page.e, drawn.e))) <= 0

\* what the layout of any image is under Use Image Size
MatchImageLayout(lay, imgW, imgH) ==
    /\ lay.page_width = FFromInt(imgW)
    /\ lay.page_height = FFromInt(imgH)
    /\ lay.ratio = FFromInt(1)
    /\ lay.new_width = FFromInt(imgW)
    /\ lay.new_height = FFromInt(imgH)
    /\ lay.x = FZero
    /\ lay.y = FZero

PositiveLayoutDone ==
    calc.fn = "layout" /\ calc.done /\ calc.width > 0 /\ calc.height > 0

\* C7 as claimed: the drawn size never exceeds the page, the aspect ratio
\* is kept exactly, and each offset is half the margin as the code computes it
C7_LayoutExact ==
    PositiveLayoutDone =>
        /\ calc.out.ok
        /\ calc.use_a4 =>
               /\ calc.out.page_width = A4.w
               /\ calc.out.page_height = A4.h
               /\ FCmp(calc.out.new_width, A4.w) <= 0
               /\ FCmp(calc.out.new_height, A4.h) <= 0
               /\ AspectExact(calc.out, calc.width, calc.height)
               /\ CenteredWithin(calc.out.x, A4.w, calc.out.new_width)
               /\ CenteredWithin(calc.out.y, A4.h, calc.out.new_height)
        /\ ~calc.use_a4 => MatchImageLayout(calc.out, calc.width, calc.height)

\* C7 as amended: each operation of the reference layout rounds to the
\* nearest double, so the drawn size exceeds the page by at most one unit in
\* the last place, one drawn side is within one such unit of its page side
\* (the ratio is the smaller quotient, not clamped), the aspect ratio is
\* kept within 2^-51, and each offset is half the margin, rounded
C7_LayoutRounded ==
    PositiveLayoutDone =>
        /\ calc.out.ok
        /\ calc.use_a4 =>
               /\ calc.out.page_width = A4.w
               /\ calc.out.page_height = A4.h
               /\ FCmp(calc.out.new_width, FNextUp(A4.w)) <= 0
               /\ FCmp(calc.out.new_height, FNextUp(A4.h)) <= 0
               /\ \/ FCmp(calc.out.new_width, FNextDown(A4.w)) >= 0
                  \/ FCmp(calc.out.new_height, FNextDown(A4.h)) >= 0
               /\ AspectWithin(calc.out, calc.width, calc.height)
               /\ CenteredWithin(calc.out.x, A4.w, calc.out.new_width)
               /\ CenteredWithin(calc.out.y, A4.h, calc.out.new_height)
        /\ ~calc.use_a4 => MatchImageLayout(calc.out, calc.width, calc.height)

\* a 1x51 image laid out on A4: the drawn height is one unit in the last
\* place above the page height, and the offset is below zero
C7_Witness ==
    /\ PositiveLayoutDone
    /\ calc.use_a4
    /\ calc.width = 1
    /\ calc.height = 51
    /\ calc.out.new_height = FNextUp(A4.h)
    /\ calc.out.y.neg

(***************************************************************************)
(* C10.  At most one run is in flight: from save_pdf starting a worker to  *)
(* pdf_finished handling its finished signal the four buttons are          *)
(* disabled, so no second worker starts; pdf_finished enables them again,  *)
(* and every started run is handled by exactly one pdf_finished call.      *)
(***************************************************************************)
InFlight == {i \in DOMAIN workers : ui.handled[i] = 0}

C10_OneInFlight ==
    /\ Len(ui.handled) = Len(workers)
    /\ Cardinality(InFlight) <= 1
    /\ \A i \in DOMAIN workers : ui.handled[i] <= 1
    /\ InFlight # {} =>
           ~ui.add_btn /\ ~ui.preview_btn /\ ~ui.clear_btn /\ ~ui.save_btn
    /\ InFlight = {} =>
           ui.add_btn /\ ui.preview_btn /\ ui.clear_btn /\ ui.save_btn

C10_SingleRun ==
    /\ []C10_OneInFlight
    /\ \A i \in 1..MaxRuns :
           (Len(workers) >= i) ~> (Len(workers) >= i /\ ui.handled[i] = 1)

\* a second run in flight after the first was handled
C10_Witness ==
    /\ Len(workers) = 2
    /\ ui.handled = <<1, 0>>
    /\ workers[2].pc = "running"
    /\ ~ui.save_btn
====
